---- MODULE Spec2Model ----
(***************************************************************************)
(* Donation-Inventory backend: the Zod validator (types.ts), the SQLite    *)
(* store (database.ts) and the Express routes (routes.ts).                 *)
(*                                                                         *)
(* A request is either an HTTP request handled by a route ("route") or a   *)
(* direct call of a Database method ("store").  Every SQL statement is one *)
(* atomic step; the statements of different requests interleave.  The code *)
(* a request runs before its first statement touches nothing shared, so it *)
(* is one step with that statement.                                        *)
(***************************************************************************)
EXTENDS Integers, Sequences, FiniteSets, Bags, TLC

(***************************************************************************)
(* Bounds of the model.                                                    *)
(***************************************************************************)
MaxId == 2
MaxTime == 1
MaxReq == 2

(***************************************************************************)
(* Program constants.                                                      *)
(***************************************************************************)
MinNameLen == 2
MaxNameLen == 100
MaxQuantity == 1000000

DonationType == {"money", "food", "clothing", "toys", "books", "household", "other"}

CreateKeys == {"donor_name", "donation_type", "quantity", "date"}

(***************************************************************************)
(* Strings are sequences of characters, so that trim and length are        *)
(* computed.  Sp is the whitespace character.                              *)
(***************************************************************************)
Sp == " "

RECURSIVE TrimStart(_)
TrimStart(s) == IF s # <<>> /\ Head(s) = Sp THEN TrimStart(Tail(s)) ELSE s

RECURSIVE TrimEnd(_)
TrimEnd(s) ==
  IF s # <<>> /\ s[Len(s)] = Sp THEN TrimEnd(SubSeq(s, 1, Len(s) - 1)) ELSE s

\* String.prototype.trim, as z.string().trim() applies it
Trim(s) == TrimEnd(TrimStart(s))

\* !isNaN(Date.parse(date)), on the date strings of the model
ParseableDates == {"2024-03-01", "2024-03-02"}
DateParses(d) == d \in ParseableDates

(***************************************************************************)
(* A field map (request body, or the argument of a Database method).       *)
(* keys is the set of keys that are present with a defined value; a key    *)
(* that is absent carries the default of NoFields.                         *)
(***************************************************************************)
NoFields ==
  [keys |-> {}, donor_name |-> <<>>, donation_type |-> "", quantity |-> 0,
   date |-> "", id |-> 0, created_at |-> 0]

(***************************************************************************)
(* The Zod schemas.  Each issue is <<path, message>>.  The checks of a     *)
(* string run in the order they were chained: min and max see the raw      *)
(* string, trim runs last.                                                 *)
(***************************************************************************)
NameIssues(m) ==
  (IF Len(m.donor_name) < MinNameLen
     THEN {<<"donor_name", "Donor name must be at least 2 characters">>} ELSE {})
  \cup
  (IF Len(m.donor_name) > MaxNameLen
     THEN {<<"donor_name", "Donor name must be less than 100 characters">>} ELSE {})

TypeIssues(m) ==
  IF m.donation_type \in DonationType THEN {}
  ELSE {<<"donation_type", "Invalid enum value">>}

\* a quantity rule whose upper limit is exclusive
QuantityIssuesBelowMax(m) ==
  (IF m.quantity > 0 THEN {}
   ELSE {<<"quantity", "Quantity must be a positive number">>})
  \cup
  (IF m.quantity < MaxQuantity THEN {}
   ELSE {<<"quantity", "Quantity seems too large">>})

\* z.number().positive(...).max(1000000, ...)
QuantityIssues(m) ==
  (IF m.quantity > 0 THEN {}
   ELSE {<<"quantity", "Quantity must be a positive number">>})
  \cup
  (IF m.quantity <= MaxQuantity THEN {}
   ELSE {<<"quantity", "Quantity seems too large">>})

DateIssues(m) ==
  IF DateParses(m.date) THEN {} ELSE {<<"date", "Please provide a valid date">>}

FieldIssues(m, k) ==
  CASE k = "donor_name" -> NameIssues(m)
    [] k = "donation_type" -> TypeIssues(m)
    [] k = "quantity" -> QuantityIssues(m)
    [] k = "date" -> DateIssues(m)

\* the parsed output of z.object: unknown keys are stripped, donor_name trimmed
Normalized(m) ==
  [NoFields EXCEPT
     !.keys = m.keys \cap CreateKeys,
     !.donor_name = IF "donor_name" \in m.keys THEN Trim(m.donor_name) ELSE <<>>,
     !.donation_type = IF "donation_type" \in m.keys THEN m.donation_type ELSE "",
     !.quantity = IF "quantity" \in m.keys THEN m.quantity ELSE 0,
     !.date = IF "date" \in m.keys THEN m.date ELSE ""]

\* CreateDonationSchema.safeParse: every field is required
CreateIssues(m) ==
  UNION {IF k \in m.keys THEN FieldIssues(m, k) ELSE {<<k, "Required">>} :
         k \in CreateKeys}

\* UpdateDonationSchema.safeParse: every field is optional
UpdateIssues(m) ==
  UNION {IF k \in m.keys THEN FieldIssues(m, k) ELSE {} : k \in CreateKeys}

(***************************************************************************)
(* parseInt(req.params.id): leading whitespace and one sign are skipped,   *)
(* the longest prefix of digits is read, anything after it is ignored;     *)
(* NaN when there is no digit.  ParseInt gives <<isNaN, value>>.           *)
(***************************************************************************)
DigitValue ==
  [c \in {"0", "1", "2", "3", "4", "5", "6", "7", "8", "9"} |->
     CASE c = "0" -> 0 [] c = "1" -> 1 [] c = "2" -> 2 [] c = "3" -> 3
       [] c = "4" -> 4 [] c = "5" -> 5 [] c = "6" -> 6 [] c = "7" -> 7
       [] c = "8" -> 8 [] c = "9" -> 9]

IsDigit(c) == c \in DOMAIN DigitValue

RECURSIVE DigitPrefix(_, _)
\* the value of the longest digit prefix of s, continuing from acc
DigitPrefix(s, acc) ==
  IF s # <<>> /\ IsDigit(Head(s))
    THEN DigitPrefix(Tail(s), 10 * acc + DigitValue[Head(s)])
    ELSE acc

ParseInt(raw) ==
  LET s == TrimStart(raw)
      neg == s # <<>> /\ Head(s) = "-"
      t == IF s # <<>> /\ Head(s) \in {"-", "+"} THEN Tail(s) ELSE s
  IN  IF t # <<>> /\ IsDigit(Head(t))
        THEN <<FALSE, IF neg THEN 0 - DigitPrefix(t, 0) ELSE DigitPrefix(t, 0)>>
        ELSE <<TRUE, 0>>

\* isNaN(donationId) || donationId <= 0
InvalidId(raw) == ParseInt(raw)[1] \/ ParseInt(raw)[2] <= 0

(***************************************************************************)
(* The donations table.  A row is a record of the seven columns; rows is   *)
(* the set of rows; seq is the AUTOINCREMENT counter (sqlite_sequence).    *)
(***************************************************************************)
Ids(t) == {r.id : r \in t}

RowById(t, id) == CHOOSE r \in t : r.id = id

MaxOf(S) == CHOOSE x \in S : \A y \in S : y <= x

\* the CHECK and NOT NULL constraints of CREATE TABLE donations
ChecksHold(row) ==
  /\ Len(row.donor_name) >= MinNameLen
  /\ row.donation_type \in DonationType
  /\ row.quantity > 0

\* INTEGER PRIMARY KEY without AUTOINCREMENT: one more than the largest id in the table
RowIdNoAutoincrement(t, s) == IF t = {} THEN 1 ELSE MaxOf(Ids(t)) + 1

\* INTEGER PRIMARY KEY AUTOINCREMENT: one more than the largest id the table ever held
NextRowId(t, s) ==
  LET m == IF t = {} THEN 0 ELSE MaxOf(Ids(t))
  IN  (IF s > m THEN s ELSE m) + 1

\* INSERT INTO donations (donor_name, donation_type, quantity, date);
\* created_at and updated_at take DEFAULT CURRENT_TIMESTAMP
InsertedRow(m, id, t) ==
  [id |-> id, donor_name |-> m.donor_name, donation_type |-> m.donation_type,
   quantity |-> m.quantity, date |-> m.date, created_at |-> t, updated_at |-> t]

\* a missing field is bound as NULL and fails NOT NULL
InsertOk(m, id, t) == CreateKeys \subseteq m.keys /\ ChecksHold(InsertedRow(m, id, t))

\* fields = Object.keys(updates).filter(defined)
Fields(m) == m.keys

\* a SET clause that writes date whether or not the payload has it
UpdatedRowWritesDate(row, m, t) ==
  [id |-> IF "id" \in Fields(m) THEN m.id ELSE row.id,
   donor_name |-> IF "donor_name" \in Fields(m) THEN m.donor_name ELSE row.donor_name,
   donation_type |->
     IF "donation_type" \in Fields(m) THEN m.donation_type ELSE row.donation_type,
   quantity |-> IF "quantity" \in Fields(m) THEN m.quantity ELSE row.quantity,
   date |-> m.date,
   created_at |-> IF "created_at" \in Fields(m) THEN m.created_at ELSE row.created_at,
   updated_at |-> t]

\* UPDATE donations SET <field = ?, ...>, updated_at = CURRENT_TIMESTAMP
UpdatedRow(row, m, t) ==
  [id |-> IF "id" \in Fields(m) THEN m.id ELSE row.id,
   donor_name |-> IF "donor_name" \in Fields(m) THEN m.donor_name ELSE row.donor_name,
   donation_type |->
     IF "donation_type" \in Fields(m) THEN m.donation_type ELSE row.donation_type,
   quantity |-> IF "quantity" \in Fields(m) THEN m.quantity ELSE row.quantity,
   date |-> IF "date" \in Fields(m) THEN m.date ELSE row.date,
   created_at |-> IF "created_at" \in Fields(m) THEN m.created_at ELSE row.created_at,
   updated_at |-> t]

\* the row passes the CHECKs and its id is no other row's
UpdateOk(t, row, m, now_) ==
  LET new == UpdatedRow(row, m, now_)
  IN  ChecksHold(new) /\ (new.id = row.id \/ new.id \notin Ids(t))

\* the UPDATE ends in a constraint error
UpdateFails(t, id, m, now_) ==
  id \in Ids(t) /\ ~UpdateOk(t, RowById(t, id), m, now_)

\* a store that keeps the assignments made before the constraint error
TableAfterUpdateNoRollback(t, id, m, now_) ==
  IF id \notin Ids(t) THEN t
  ELSE LET old == RowById(t, id)
           good == {k \in Fields(m) \ {"id"} :
                      ChecksHold(UpdatedRow(old, [m EXCEPT !.keys = {k}], now_))}
       IN  IF UpdateOk(t, old, m, now_)
             THEN (t \ {old}) \cup {UpdatedRow(old, m, now_)}
             ELSE (t \ {old}) \cup {UpdatedRow(old, [m EXCEPT !.keys = good], now_)}

\* an UPDATE without its WHERE clause: every row is written
TableAfterUpdateNoWhere(t, id, m, now_) ==
  IF id \in Ids(t) /\ UpdateOk(t, RowById(t, id), m, now_)
    THEN {UpdatedRow(r, m, now_) : r \in t}
    ELSE t

\* the table after UPDATE ... WHERE id = ?: the statement is applied as a whole
\* or, on a constraint error, not at all
TableAfterUpdate(t, id, m, now_) ==
  IF id \in Ids(t) /\ UpdateOk(t, RowById(t, id), m, now_)
    THEN (t \ {RowById(t, id)}) \cup {UpdatedRow(RowById(t, id), m, now_)}
    ELSE t

(***************************************************************************)
(* State.                                                                  *)
(*   rows    the donations table                                           *)
(*   seq     sqlite_sequence.seq of the table                              *)
(*   now     CURRENT_TIMESTAMP, in whole seconds                           *)
(*   req     the requests in flight, each waiting for its next statement   *)
(*           (a bag: two requests may be alike); pc is the statement a     *)
(*           request waits for, ran the statement it ran last and fault    *)
(*           whether the storage medium failed in it, wrote the            *)
(*           updated_at its UPDATE has written (history)                   *)
(*   reply   the request that has just been answered, Idle when none       *)
(*   issued  history: the ids INSERT assigned, in creation order           *)
(*   proc    the process: "running", "closing" once a shutdown signal has  *)
(*           queued the close of the database, "exited"; a request is cut  *)
(*           when its next statement is queued behind the close            *)
(*   client  what handleApiResponse of the frontend has made of a response *)
(***************************************************************************)
VARIABLES rows, seq, now, req, reply, issued, proc, client

vars == <<rows, seq, now, req, reply, issued, proc, client>>

\* handleApiResponse has not been called
NoOutcome == [kind |-> "none", data |-> <<>>, message |-> "", status |-> 0, errors |-> {}]

\* no request
Idle ==
  [pc |-> "idle", via |-> "", op |-> "", idp |-> <<>>, id |-> 0,
   body |-> NoFields, parsed |-> NoFields, out |-> "", err |-> "",
   status |-> 0, success |-> FALSE, message |-> "", hasData |-> FALSE,
   data |-> <<>>, errors |-> {}, sends |-> 0, ran |-> "", fault |-> FALSE, wrote |-> 0, cut |-> FALSE]

\* the Database method settles: out is what the promise resolves to, or "rejected"
Settle(q, out, err, data) ==
  [q EXCEPT !.pc = "done", !.out = out, !.err = err, !.data = data]

\* sendResponse(res, status, {success, data, message, errors})
SendResponse(q, status, success, message, hasData, data, errors) ==
  [q EXCEPT !.pc = "done", !.status = status, !.success = success,
            !.message = message, !.hasData = hasData, !.data = data,
            !.errors = errors, !.sends = 1]

Fail(q, status, message) == SendResponse(q, status, FALSE, message, FALSE, <<>>, {})

ValidationFailed(q, issues) ==
  SendResponse(q, 400, FALSE, "Validation failed", FALSE, <<>>, issues)

(***************************************************************************)
(* The routes, up to their first await.                                    *)
(***************************************************************************)
\* POST /donations
PostDonation(body) ==
  LET q == [Idle EXCEPT !.via = "route", !.op = "create", !.body = body]
  IN  IF CreateIssues(body) # {}
        THEN ValidationFailed(q, CreateIssues(body))
        ELSE [q EXCEPT !.pc = "insert", !.parsed = Normalized(body)]

\* a PUT route that validates the payload before it looks at the id
PutDonationValidatesFirst(idp, body) ==
  LET q == [Idle EXCEPT !.via = "route", !.op = "update", !.idp = idp,
                        !.id = ParseInt(idp)[2], !.body = body]
  IN  IF UpdateIssues(body) # {} THEN ValidationFailed(q, UpdateIssues(body))
      ELSE IF InvalidId(idp) THEN Fail(q, 400, "Invalid donation ID")
      ELSE [q EXCEPT !.pc = "get", !.parsed = Normalized(body)]

\* PUT /donations/:id
PutDonation(idp, body) ==
  LET q == [Idle EXCEPT !.via = "route", !.op = "update", !.idp = idp,
                        !.id = ParseInt(idp)[2], !.body = body]
  IN  IF InvalidId(idp) THEN Fail(q, 400, "Invalid donation ID")
      ELSE IF UpdateIssues(body) # {} THEN ValidationFailed(q, UpdateIssues(body))
      ELSE [q EXCEPT !.pc = "get", !.parsed = Normalized(body)]

\* DELETE /donations/:id
DeleteDonationRoute(idp) ==
  LET q == [Idle EXCEPT !.via = "route", !.op = "delete", !.idp = idp,
                        !.id = ParseInt(idp)[2]]
  IN  IF InvalidId(idp) THEN Fail(q, 400, "Invalid donation ID")
      ELSE [q EXCEPT !.pc = "get"]

\* GET /donations/:id
GetDonationRoute(idp) ==
  LET q == [Idle EXCEPT !.via = "route", !.op = "get", !.idp = idp,
                        !.id = ParseInt(idp)[2]]
  IN  IF InvalidId(idp) THEN Fail(q, 400, "Invalid donation ID")
      ELSE [q EXCEPT !.pc = "get"]

\* GET /donations
GetDonationsRoute == [Idle EXCEPT !.via = "route", !.op = "list", !.pc = "all"]

(***************************************************************************)
(* The Database methods called directly, up to their first statement.      *)
(***************************************************************************)
\* the synchronous part of updateDonation: throws when no field is defined
UpdateDonationCall(q) ==
  IF Fields(q.parsed) = {}
    THEN Settle(q, "rejected", "No fields provided for update", <<>>)
    ELSE [q EXCEPT !.pc = "update"]

CreateDonation(m) ==
  [Idle EXCEPT !.via = "store", !.op = "create", !.body = m, !.pc = "insert",
               !.parsed = [m EXCEPT !.keys = m.keys \cap CreateKeys]]

UpdateDonation(id, m) ==
  UpdateDonationCall(
    [Idle EXCEPT !.via = "store", !.op = "update", !.id = id, !.body = m,
                 !.parsed = m])

DeleteDonation(id) ==
  [Idle EXCEPT !.via = "store", !.op = "delete", !.id = id, !.pc = "delete"]

GetDonationById(id) ==
  [Idle EXCEPT !.via = "store", !.op = "get", !.id = id, !.pc = "get"]

GetAllDonations == [Idle EXCEPT !.via = "store", !.op = "list", !.pc = "all"]

(***************************************************************************)
(* What a request does when one of its statements has run: the callback of *)
(* the Database method and, for a route, the code after its await.         *)
(***************************************************************************)
\* getDonationById settles: the row, null when there is none, or a rejection
GetSettled(q, fault, t) ==
  IF fault THEN Settle(q, "rejected", "Failed to fetch donation", <<>>)
  ELSE IF q.id \in Ids(t) THEN Settle(q, "row", "", <<RowById(t, q.id)>>)
  ELSE Settle(q, "null", "", <<>>)

\* GET /donations/:id after its await
GetAfterGet(s) ==
  IF s.out = "rejected" THEN Fail(s, 500, "Failed to retrieve donation")
  ELSE IF s.out = "null" THEN Fail(s, 404, "Donation not found")
  ELSE SendResponse(s, 200, TRUE, "Donation retrieved successfully", TRUE, s.data, {})

\* a PUT that goes on to updateDonation without looking at existingDonation
PutAfterGetUnchecked(s) ==
  IF s.out = "rejected" THEN Fail(s, 500, "Failed to update donation")
  ELSE LET u == UpdateDonationCall([s EXCEPT !.out = "", !.err = "", !.data = <<>>])
       IN  IF u.pc = "done" THEN Fail(u, 500, "Failed to update donation") ELSE u

\* PUT /donations/:id after await getDonationById: 404 when there is no record,
\* else the call of updateDonation, whose throw the catch block answers with 500
PutAfterGet(s) ==
  IF s.out = "rejected" THEN Fail(s, 500, "Failed to update donation")
  ELSE IF s.out = "null" THEN Fail(s, 404, "Donation not found")
  ELSE LET u == UpdateDonationCall([s EXCEPT !.out = "", !.err = "", !.data = <<>>])
       IN  IF u.pc = "done" THEN Fail(u, 500, "Failed to update donation") ELSE u

\* DELETE /donations/:id after await getDonationById
DeleteAfterGet(s) ==
  IF s.out = "rejected" THEN Fail(s, 500, "Failed to delete donation")
  ELSE IF s.out = "null" THEN Fail(s, 404, "Donation not found")
  ELSE [s EXCEPT !.pc = "delete", !.out = "", !.data = <<>>]

\* after SELECT * FROM donations WHERE id = ? of getDonationById
AfterGet(q, fault, t) ==
  LET s == GetSettled(q, fault, t)
  IN  IF q.via = "store" THEN s
      ELSE IF q.op = "get" THEN GetAfterGet(s)
      ELSE IF q.op = "update" THEN PutAfterGet(s)
      ELSE DeleteAfterGet(s)

\* after INSERT INTO donations of createDonation
AfterInsert(q, ok) ==
  IF ok THEN [q EXCEPT !.pc = "select"]
  ELSE LET s == Settle(q, "rejected", "Failed to create donation", <<>>)
       IN  IF q.via = "store" THEN s ELSE Fail(s, 500, "Failed to create donation")

\* after UPDATE donations of updateDonation; changes is this.changes
AfterUpdate(q, ok, changes) ==
  IF ~ok THEN
    LET s == Settle(q, "rejected", "Failed to update donation", <<>>)
    IN  IF q.via = "store" THEN s ELSE Fail(s, 500, "Failed to update donation")
  ELSE IF changes = 0 THEN
    LET s == Settle(q, "null", "", <<>>)
    IN  IF q.via = "store" THEN s ELSE Fail(s, 404, "Donation not found")
  ELSE [q EXCEPT !.pc = "select"]

\* a deleteDonation that resolves true without looking at this.changes
AfterDeleteIgnoresChanges(q, ok, changes) ==
  IF ~ok THEN
    LET s == Settle(q, "rejected", "Failed to delete donation", <<>>)
    IN  IF q.via = "store" THEN s ELSE Fail(s, 500, "Failed to delete donation")
  ELSE
    LET s == Settle(q, "true", "", <<>>)
    IN  IF q.via = "store" THEN s
        ELSE SendResponse(s, 200, TRUE, "Donation deleted successfully", FALSE, <<>>, {})

\* a deleteDonation that rejects when the DELETE changed no row
AfterDeleteRejectsAbsent(q, ok, changes) ==
  IF ~ok \/ changes = 0 THEN
    LET s == Settle(q, "rejected", "Failed to delete donation", <<>>)
    IN  IF q.via = "store" THEN s ELSE Fail(s, 500, "Failed to delete donation")
  ELSE
    LET s == Settle(q, "true", "", <<>>)
    IN  IF q.via = "store" THEN s
        ELSE SendResponse(s, 200, TRUE, "Donation deleted successfully", FALSE, <<>>, {})

\* after DELETE FROM donations of deleteDonation
AfterDelete(q, ok, changes) ==
  IF ~ok THEN
    LET s == Settle(q, "rejected", "Failed to delete donation", <<>>)
    IN  IF q.via = "store" THEN s ELSE Fail(s, 500, "Failed to delete donation")
  ELSE IF changes = 0 THEN
    LET s == Settle(q, "false", "", <<>>)
    IN  IF q.via = "store" THEN s ELSE Fail(s, 404, "Donation not found")
  ELSE
    LET s == Settle(q, "true", "", <<>>)
    IN  IF q.via = "store" THEN s
        ELSE SendResponse(s, 200, TRUE, "Donation deleted successfully", FALSE, <<>>, {})

\* after the read-back SELECT of createDonation and updateDonation; the id read
\* back is this.lastID of the INSERT, or the id the UPDATE was given
AfterSelect(q, fault, t) ==
  LET found == q.id \in Ids(t)
      row == IF found THEN <<RowById(t, q.id)>> ELSE <<>>
      s == IF fault THEN
             Settle(q, "rejected",
                    IF q.op = "create" THEN "Failed to retrieve created donation"
                    ELSE "Failed to retrieve updated donation", <<>>)
           ELSE IF found THEN Settle(q, "row", "", row)
           ELSE Settle(q, "undefined", "", <<>>)
  IN  IF q.via = "store" THEN s
      ELSE IF q.op = "create" THEN
        IF fault THEN Fail(s, 500, "Failed to create donation")
        ELSE IF found THEN
          SendResponse(s, 201, TRUE, "Donation created successfully", TRUE, row, {})
        ELSE
          \* 201 is sent without data; newDonation.id then throws, and the catch
          \* block sends a second response
          [SendResponse(s, 201, TRUE, "Donation created successfully", FALSE, <<>>, {})
             EXCEPT !.sends = 2]
      ELSE
        IF fault THEN Fail(s, 500, "Failed to update donation")
        ELSE IF found THEN
          SendResponse(s, 200, TRUE, "Donation updated successfully", TRUE, row, {})
        ELSE Fail(s, 404, "Donation not found")

\* the orders SELECT ... ORDER BY created_at DESC may return: rows of equal
\* created_at come in an order the statement does not fix
RECURSIVE Orderings(_)
Orderings(t) ==
  IF t = {} THEN {<<>>}
  ELSE LET newest == {r \in t : \A o \in t : o.created_at <= r.created_at}
       IN  UNION {{<<r>> \o rest : rest \in Orderings(t \ {r})} : r \in newest}

\* after the SELECT of getAllDonations
AfterAll(q, fault, list) ==
  LET s == IF fault THEN Settle(q, "rejected", "Failed to fetch donations from database", <<>>)
           ELSE Settle(q, "list", "", list)
  IN  IF q.via = "store" THEN s
      ELSE IF fault THEN Fail(s, 500, "Failed to retrieve donations")
      ELSE SendResponse(s, 200, TRUE, "Retrieved donations", TRUE, list, {})

(***************************************************************************)
(* The inputs the requests are drawn from.                                 *)
(***************************************************************************)
NSmith == <<"A", ".", " ", "S", "m", "i", "t", "h">>
NAB == <<"A", "B">>
NPadded == <<" ", "X", " ">>
NX == <<"X">>

Body(n, ty, q, d) ==
  [NoFields EXCEPT !.keys = CreateKeys, !.donor_name = n, !.donation_type = ty,
                   !.quantity = q, !.date = d]

\* the bodies of POST /donations
PostBodies ==
  { Body(NSmith, "food", 12, "2024-03-01"),
    Body(NX, "food", 1, "2024-03-01"),
    Body(NPadded, "food", 12, "2024-03-01"),
    Body(NX, "cash", 0, "someday"),
    Body(NPadded, "cash", 0, "someday"),
    [NoFields EXCEPT !.keys = {"donor_name"}, !.donor_name = NSmith] }

\* the bodies of PUT /donations/:id
PutBodies ==
  { NoFields,
    [NoFields EXCEPT !.keys = {"quantity"}, !.quantity = 20],
    [NoFields EXCEPT !.keys = {"quantity"}, !.quantity = 0],
    [NoFields EXCEPT !.keys = {"donor_name", "quantity"}, !.donor_name = NPadded,
                     !.quantity = 20],
    [NoFields EXCEPT !.keys = {"id", "created_at"}, !.id = MaxId,
                     !.created_at = MaxTime] }

\* the :id of a route
IdParams == { <<"1">>, <<"2">>, <<"0">>, <<"a", "b", "c">>, <<"1", ".", "5">> }

\* the arguments of a direct createDonation
CreateInputs ==
  { Body(NSmith, "food", 12, "2024-03-01"),
    Body(NPadded, "food", MaxQuantity + 1, "someday"),
    Body(NX, "food", 12, "2024-03-01"),
    Body(NSmith, "cash", 12, "2024-03-01"),
    Body(NSmith, "food", 0, "2024-03-01") }

\* the arguments of a direct updateDonation
UpdateInputs ==
  { NoFields,
    [NoFields EXCEPT !.keys = {"quantity"}, !.quantity = 20],
    [NoFields EXCEPT !.keys = {"donation_type", "quantity"}, !.donation_type = "cash",
                     !.quantity = 20],
    [NoFields EXCEPT !.keys = {"id"}, !.id = MaxId],
    [NoFields EXCEPT !.keys = {"created_at"}, !.created_at = MaxTime] }

StoreIds == 1 .. MaxId

(***************************************************************************)
(* Actions.                                                                *)
(***************************************************************************)
Init ==
  /\ client = NoOutcome
  /\ rows = {}
  /\ seq = 0
  /\ now = 0
  /\ req = EmptyBag
  /\ reply = Idle
  /\ issued = <<>>
  /\ proc = "running"

\* an answer is taken by its caller before anything else happens
\* (Finish commutes with every other action)
Quiet == reply = Idle /\ proc # "exited"

\* one more request can be in flight
CanBegin == Quiet /\ proc = "running" /\ BagCardinality(req) < MaxReq

\* the INSERT of a new request stays within the ids of the model
CanCreate == NextRowId(rows, seq) <= MaxId

\* request q (Idle: a new request) has become q2: answered, or waiting for its
\* next statement
Becomes(q, q2) ==
  LET others == IF q = Idle THEN req ELSE req (-) SetToBag({q})
  IN  /\ IF q2.pc = "done"
           THEN req' = others /\ reply' = q2
           ELSE /\ req' = others (+) SetToBag({[q2 EXCEPT !.cut = proc = "closing"]})
                /\ reply' = reply
      /\ UNCHANGED <<proc, client>>

\* q2 is what a request has become by running statement st; fault: the
\* storage medium failed in it
Ran(q2, st, fault) == [q2 EXCEPT !.ran = st, !.fault = fault]

\* q2 goes on to its read-back after an UPDATE that wrote updated_at = t
Wrote(q2, t) == IF q2.pc = "select" THEN [q2 EXCEPT !.wrote = t] ELSE q2

\* SQLite runs the SELECT of getDonationById for q
RunGet(q0, q) ==
  /\ \E fault \in BOOLEAN : Becomes(q0, Ran(AfterGet(q, fault, rows), "get", fault))
  /\ UNCHANGED <<rows, seq, now, issued>>

\* SQLite runs the INSERT of createDonation for q
RunInsert(q0, q) ==
  LET id == NextRowId(rows, seq)
  IN  /\ \E fault \in BOOLEAN :
           IF ~fault /\ InsertOk(q.parsed, id, now)
             THEN /\ rows' = rows \cup {InsertedRow(q.parsed, id, now)}
                  /\ seq' = id
                  /\ issued' = Append(issued, id)
                  /\ Becomes(q0, Ran(AfterInsert([q EXCEPT !.id = id], TRUE), "insert", fault))
             ELSE /\ Becomes(q0, Ran(AfterInsert(q, FALSE), "insert", fault))
                  /\ UNCHANGED <<rows, seq, issued>>
      /\ UNCHANGED now

\* SQLite runs the UPDATE of updateDonation for q
RunUpdate(q0, q) ==
  LET changes == IF q.id \in Ids(rows) THEN 1 ELSE 0
  IN  /\ \E fault \in BOOLEAN :
           IF fault
             THEN /\ Becomes(q0, Ran(AfterUpdate(q, FALSE, 0), "update", fault))
                  /\ rows' = rows
             ELSE /\ Becomes(q0, Wrote(Ran(AfterUpdate(q, ~UpdateFails(rows, q.id, q.parsed,
                                                                      now),
                                                       changes), "update", fault), now))
                  /\ rows' = TableAfterUpdate(rows, q.id, q.parsed, now)
      /\ UNCHANGED <<seq, now, issued>>

\* SQLite runs the DELETE of deleteDonation for q
RunDelete(q0, q) ==
  LET changes == IF q.id \in Ids(rows) THEN 1 ELSE 0
  IN  /\ \E fault \in BOOLEAN :
           IF fault
             THEN /\ Becomes(q0, Ran(AfterDelete(q, FALSE, 0), "delete", fault))
                  /\ rows' = rows
             ELSE /\ Becomes(q0, Ran(AfterDelete(q, TRUE, changes), "delete", fault))
                  /\ rows' = {x \in rows : x.id # q.id}
      /\ UNCHANGED <<seq, now, issued>>

\* SQLite runs the read-back SELECT of createDonation or updateDonation for q
RunSelect(q0, q) ==
  /\ \E fault \in BOOLEAN : Becomes(q0, Ran(AfterSelect(q, fault, rows), "select", fault))
  /\ UNCHANGED <<rows, seq, now, issued>>

\* SQLite runs the SELECT of getAllDonations for q
RunAll(q0, q) ==
  /\ \E fault \in BOOLEAN, list \in Orderings(rows) : Becomes(q0, Ran(AfterAll(q, fault, list), "all", fault))
  /\ UNCHANGED <<rows, seq, now, issued>>

\* a new request q: answered at once, or its first statement runs
Begin(q) ==
  IF q.pc = "done" THEN Becomes(Idle, q) /\ UNCHANGED <<rows, seq, now, issued>>
  ELSE IF q.pc = "get" THEN RunGet(Idle, q)
  ELSE IF q.pc = "insert" THEN RunInsert(Idle, q)
  ELSE IF q.pc = "update" THEN RunUpdate(Idle, q)
  ELSE IF q.pc = "delete" THEN RunDelete(Idle, q)
  ELSE RunAll(Idle, q)

\* the clock reaches the next second
Tick ==
  /\ Quiet
  /\ now < MaxTime
  /\ now' = now + 1
  /\ UNCHANGED <<rows, seq, req, reply, issued, proc, client>>

RoutePost == CanBegin /\ CanCreate /\ \E b \in PostBodies : Begin(PostDonation(b))

RoutePut == CanBegin /\ \E i \in IdParams, b \in PutBodies : Begin(PutDonation(i, b))

RouteDelete == CanBegin /\ \E i \in IdParams : Begin(DeleteDonationRoute(i))

RouteGet == CanBegin /\ \E i \in IdParams : Begin(GetDonationRoute(i))

RouteList == CanBegin /\ Begin(GetDonationsRoute)

StoreCreate == CanBegin /\ CanCreate /\ \E b \in CreateInputs : Begin(CreateDonation(b))

StoreUpdate == CanBegin /\ \E i \in StoreIds, b \in UpdateInputs : Begin(UpdateDonation(i, b))

StoreDelete == CanBegin /\ \E i \in StoreIds : Begin(DeleteDonation(i))

StoreGet == CanBegin /\ \E i \in StoreIds : Begin(GetDonationById(i))

StoreList == CanBegin /\ Begin(GetAllDonations)

\* the UPDATE of a PUT that has found its record
ExecUpdate == Quiet /\ \E q \in BagToSet(req) : q.pc = "update" /\ ~q.cut /\ RunUpdate(q, q)

\* the DELETE of a DELETE that has found its record
ExecDelete == Quiet /\ \E q \in BagToSet(req) : q.pc = "delete" /\ ~q.cut /\ RunDelete(q, q)

\* the read-back of a create or of an update
ExecSelect == Quiet /\ \E q \in BagToSet(req) : q.pc = "select" /\ ~q.cut /\ RunSelect(q, q)

\* the caller has its answer
Finish ==
  /\ reply # Idle
  /\ reply' = Idle
  /\ UNCHANGED <<rows, seq, now, req, issued, proc, client>>

\* SIGINT or SIGTERM: the handler calls database.close(), which is queued
\* behind the statements that are queued already; the server takes no new request
Shutdown ==
  /\ Quiet
  /\ proc = "running"
  /\ proc' = "closing"
  /\ UNCHANGED <<rows, seq, now, req, reply, issued, client>>

\* the statements queued before the close have run, the database is closed and
\* the handler calls process.exit(0)
Exit ==
  /\ Quiet
  /\ proc = "closing"
  /\ \A q \in BagToSet(req) : q.cut
  /\ proc' = "exited"
  /\ UNCHANGED <<rows, seq, now, req, reply, issued, client>>

\* the server: every request comes through a route
Next ==
  \/ Tick
  \/ RoutePost
  \/ RoutePut
  \/ RouteDelete
  \/ RouteGet
  \/ RouteList
  \/ ExecUpdate
  \/ ExecDelete
  \/ ExecSelect
  \/ Finish

Spec == Init /\ [][Next]_vars

\* the Database methods called directly, without the routes and their validation
StoreNext ==
  \/ Tick
  \/ StoreCreate
  \/ StoreUpdate
  \/ StoreDelete
  \/ StoreGet
  \/ StoreList
  \/ ExecSelect
  \/ Finish

StoreSpec == Init /\ [][StoreNext]_vars

\* the server and the shutdown signals it handles
ShutdownNext ==
  \/ Tick
  \/ RoutePost
  \/ RoutePut
  \/ RouteDelete
  \/ RouteGet
  \/ RouteList
  \/ ExecUpdate
  \/ ExecDelete
  \/ ExecSelect
  \/ Finish
  \/ Shutdown
  \/ Exit

ShutdownSpec == Init /\ [][ShutdownNext]_vars

(***************************************************************************)
(* The validator alone: a request has been received, and the route runs    *)
(* up to and including safeParse and what it does with the result.         *)
(***************************************************************************)
\* n times the character c
Rep(c, n) == [i \in 1 .. n |-> c]

\* donor names around the limits of the length rule, with and without padding
ValidatorNames ==
  { NX, NAB, NSmith, NPadded, <<Sp, Sp>>, <<Sp>> \o NAB \o <<Sp>>,
    Rep("a", MaxNameLen), Rep("a", MaxNameLen + 1),
    <<Sp>> \o Rep("a", MaxNameLen - 1) \o <<Sp>>,
    <<Sp>> \o Rep("a", MaxNameLen + 1) }

\* quantities around the limits of the quantity rule
ValidatorQuantities == {0 - 1, 0, 1, MaxQuantity - 1, MaxQuantity, MaxQuantity + 1}

\* the bodies given to CreateDonationSchema
ValidatorCreateInputs ==
  {Body(n, ty, q, d) : n \in ValidatorNames, ty \in {"food", "cash"},
                       q \in ValidatorQuantities, d \in {"2024-03-01", "someday"}}

\* the bodies given to UpdateDonationSchema
ValidatorUpdateInputs ==
  {NoFields}
    \cup {[NoFields EXCEPT !.keys = {"donor_name"}, !.donor_name = n] : n \in ValidatorNames}
    \cup {[NoFields EXCEPT !.keys = {"quantity"}, !.quantity = q] : q \in ValidatorQuantities}
    \cup {[NoFields EXCEPT !.keys = {"donor_name", "quantity"}, !.donor_name = n,
                           !.quantity = q] : n \in ValidatorNames, q \in ValidatorQuantities}

\* a request that has arrived and has not been looked at
Received(op, idp, body) ==
  [Idle EXCEPT !.via = "route", !.op = op, !.idp = idp, !.body = body]

ValidatorInit ==
  /\ rows = {}
  /\ seq = 0
  /\ now = 0
  /\ req = EmptyBag
  /\ issued = <<>>
  /\ proc = "running"
  /\ client = NoOutcome
  /\ reply \in {Received("create", <<>>, b) : b \in ValidatorCreateInputs}
                 \cup {Received("update", <<"1">>, b) : b \in ValidatorUpdateInputs}

\* POST /donations up to the call of createDonation
ValidateCreate ==
  /\ reply.pc = "idle"
  /\ reply.op = "create"
  /\ reply' = PostDonation(reply.body)
  /\ UNCHANGED <<rows, seq, now, req, issued, proc, client>>

\* PUT /donations/:id up to the call of getDonationById
ValidateUpdate ==
  /\ reply.pc = "idle"
  /\ reply.op = "update"
  /\ reply' = PutDonation(reply.idp, reply.body)
  /\ UNCHANGED <<rows, seq, now, req, issued, proc, client>>

ValidatorNext ==
  \/ ValidateCreate
  \/ ValidateUpdate

ValidatorSpec == ValidatorInit /\ [][ValidatorNext]_vars

(***************************************************************************)
(* The client layer: handleApiResponse of the frontend, applied to a       *)
(* response of the server.                                                 *)
(***************************************************************************)
\* axios resolves the call for a status the default validateStatus accepts and
\* rejects it with an AxiosError that holds the response otherwise
AxiosResolves(status) == status >= 200 /\ status < 300

\* error.message of the AxiosError of a rejected call
AxiosErrorMessage == "Request failed with status code"

\* return data.data as T
Returned(data) ==
  [kind |-> "returned", data |-> data, message |-> "", status |-> 0, errors |-> {}]

\* throw new ApiError(message, status, errors)
ApiError(message, status, errors) ==
  [kind |-> "ApiError", data |-> <<>>, message |-> message, status |-> status,
   errors |-> errors]

\* a || b on strings
OrElse(a, b) == IF a # "" THEN a ELSE b

\* a client that returns the data of every response axios resolves
HandleApiResponseReturnsAll(r) ==
  IF AxiosResolves(r.status)
    THEN Returned(r.data)
    ELSE ApiError(OrElse(r.message, AxiosErrorMessage), r.status, r.errors)

\* handleApiResponse(apiCall), the call having met response r
HandleApiResponse(r) ==
  IF AxiosResolves(r.status)
    THEN IF ~r.success
           THEN ApiError(OrElse(r.message, "API request failed"), r.status, r.errors)
           ELSE Returned(r.data)
    ELSE ApiError(OrElse(r.message, AxiosErrorMessage), r.status, r.errors)

\* the statuses the routes answer with
ResponseStatuses == {200, 201, 400, 404, 500}

ResponseMessages == {"", "Donation not found"}

ResponseData ==
  {<<>>, <<[id |-> 1, donor_name |-> NSmith, donation_type |-> "food",
            quantity |-> 1, date |-> "2024-03-01", created_at |-> 0,
            updated_at |-> 0]>>}

ResponseErrors == {{}, {<<"quantity", "Quantity must be greater than 0">>}}

\* the responses a call can meet
Responses ==
  {SendResponse(Received("", <<>>, NoFields), status, success, message,
                data # <<>>, data, errors) :
     status \in ResponseStatuses, success \in BOOLEAN,
     message \in ResponseMessages, data \in ResponseData,
     errors \in ResponseErrors}

ClientInit ==
  /\ rows = {}
  /\ seq = 0
  /\ now = 0
  /\ req = EmptyBag
  /\ issued = <<>>
  /\ proc = "running"
  /\ client = NoOutcome
  /\ reply \in Responses

\* the call returns or throws
HandleResponse ==
  /\ client = NoOutcome
  /\ client' = HandleApiResponse(reply)
  /\ UNCHANGED <<rows, seq, now, req, reply, issued, proc>>

ClientNext == HandleResponse

ClientSpec == ClientInit /\ [][ClientNext]_vars

(***************************************************************************)
(* Properties.                                                             *)
(***************************************************************************)
\* the field constraints of a donation record
FieldConstraints(row) ==
  /\ Len(Trim(row.donor_name)) >= MinNameLen
  /\ Len(Trim(row.donor_name)) <= MaxNameLen
  /\ row.donation_type \in DonationType
  /\ row.quantity > 0
  /\ row.quantity <= MaxQuantity
  /\ DateParses(row.date)

\* the set of the elements of a sequence
Range(f) == {f[i] : i \in DOMAIN f}

\* q2 is, after this step, the request that ran a statement in it
Acted(q2) ==
  /\ q2 # Idle
  /\ \/ reply = Idle /\ reply' = q2
     \/ reply' = reply /\ CopiesIn(q2, req') > CopiesIn(q2, req)

\* the requests there are after this step
After == BagToSet(req') \cup {reply'}

\* C1: every persisted record satisfies all field constraints (trimmed name
\* length 2..100, enumerated type, 0 < quantity <= 1,000,000, parseable
\* date), also when the Database methods are called directly
C1_PersistedRowsValid == \A row \in rows : FieldConstraints(row)

\* C2: the ids assigned by create strictly increase in creation order, so an
\* id is never the id of a record created before, deleted or not
C2_IdsStrictlyIncrease ==
  /\ \A i, j \in DOMAIN issued : i < j => issued[i] < issued[j]
  /\ Ids(rows) \subseteq Range(issued)

\* two records were created and the first of them has been deleted
C2_Witness ==
  /\ Len(issued) = 2
  /\ issued[1] \notin Ids(rows)
  /\ issued[2] \in Ids(rows)

\* C3: an UPDATE of an existing record changes only that record, and in it
\* only the fields of the payload and updated_at
C3_UpdateKeepsOtherFields ==
  [][\A q2 \in After :
       (Acted(q2) /\ q2.ran = "update" /\ q2.id \in Ids(rows)) =>
         LET old == RowById(rows, q2.id)
             kept == {"id", "donor_name", "donation_type", "quantity", "date",
                      "created_at"} \ Fields(q2.parsed)
         IN  \/ rows' = rows
             \/ \E new \in rows' :
                  /\ rows' \ {new} = rows \ {old}
                  /\ \A k \in kept : new[k] = old[k]]_vars

\* a record updated with {quantity: 20} alone: the quantity is the new one,
\* updated_at has moved, the other fields are those of the create
C3_Witness ==
  \E row \in rows :
    /\ row.quantity = 20
    /\ row.donor_name = NSmith
    /\ row.donation_type = "food"
    /\ row.date = "2024-03-01"
    /\ row.created_at < row.updated_at

\* C4: a record keeps its id and its created_at for as long as it exists:
\* every step leaves each record with the same id and created_at, or is the
\* DELETE of that record
C4_IdAndCreatedAtImmutable ==
  [][\A old \in rows :
       \/ \E new \in rows' : new.id = old.id /\ new.created_at = old.created_at
       \/ \E q2 \in After : Acted(q2) /\ q2.ran = "delete" /\ q2.id = old.id]_vars

\* C5: an UPDATE that changed a record leaves its updated_at strictly greater
C5_UpdatedAtStrictlyIncreases ==
  [][\A q2 \in After :
       (Acted(q2) /\ q2.ran = "update" /\ q2.pc = "select" /\ q2.id \in Ids(rows')) =>
         RowById(rows', q2.id).updated_at > RowById(rows, q2.id).updated_at]_vars

\* C6: the record a successful create returns has created_at = updated_at
C6_CreateReturnsEqualTimestamps ==
  (reply.op = "create" /\ reply.hasData) =>
    reply.data[1].created_at = reply.data[1].updated_at

\* C7: every persisted record has created_at <= updated_at
C7_CreatedBeforeUpdated == \A row \in rows : row.created_at <= row.updated_at

C9_NotFoundWhateverPayload ==
  (/\ reply.via = "route"
   /\ reply.op = "update"
   /\ ~InvalidId(reply.idp)
   /\ reply.id \notin Range(issued)) => reply.status = 404

\* C9 as amended: a PUT whose payload passed validation and whose id has no
\* record when one of its statements runs changes no record and ends there,
\* with 404, or with 500 when the statement itself failed
C9_AbsentIdNotFound ==
  [][\A q2 \in After :
       (/\ Acted(q2)
        /\ q2.via = "route"
        /\ q2.op = "update"
        /\ q2.ran \in {"get", "update", "select"}
        /\ q2.id \notin Ids(rows)) =>
         /\ rows' = rows
         /\ q2.pc = "done"
         /\ \/ q2.status = 404
            \/ q2.status = 500 /\ q2.out = "rejected"]_vars

\* a PUT with the empty payload of an id that never had a record was answered 404
C9_Witness ==
  /\ reply.via = "route"
  /\ reply.op = "update"
  /\ reply.body.keys = {}
  /\ reply.id \notin Range(issued)
  /\ reply.status = 404
  /\ rows # {}

\* C10: a PUT whose payload supplies no field, for a record that exists, is
\* answered 400 unless the read of the record itself failed
C10_EmptyPayloadIsClientError ==
  [][\A q2 \in After :
       (/\ Acted(q2)
        /\ q2.ran = "get"
        /\ q2.via = "route"
        /\ q2.op = "update"
        /\ q2.body.keys = {}
        /\ q2.id \in Ids(rows)
        /\ q2.err # "Failed to fetch donation") =>
         q2.pc = "done" /\ q2.status = 400]_vars

\* the text is a positive integer in decimal digits
PositiveInteger(raw) ==
  /\ raw # <<>>
  /\ \A i \in DOMAIN raw : IsDigit(raw[i])
  /\ DigitPrefix(raw, 0) > 0

\* C11: GET /donations/:id with an id that is not a positive integer is
\* answered 400 before any statement runs; with a positive integer that has no
\* record it is answered 404
C11_MalformedIdInvalidArgument ==
  [][\A q2 \in After :
       (Acted(q2) /\ q2.via = "route" /\ q2.op = "get") =>
         /\ ~PositiveInteger(q2.idp) => (q2.status = 400 /\ q2.ran = "")
         /\ (PositiveInteger(q2.idp) /\ q2.id \notin Ids(rows) /\ ~q2.fault) =>
              q2.status = 404]_vars

\* C12: a DELETE statement that the storage medium did not fail removes the
\* record and resolves true when the id has one, and changes nothing and
\* resolves false, without an error, when it has none; after it the id has no
\* record, so every repetition resolves false
C12_DeleteAbsentReturnsFalse ==
  [][\A q2 \in After :
       (Acted(q2) /\ q2.ran = "delete" /\ ~q2.fault) =>
         /\ q2.id \notin Ids(rows')
         /\ IF q2.id \in Ids(rows)
              THEN q2.out = "true" /\ rows' = rows \ {RowById(rows, q2.id)}
              ELSE q2.out = "false" /\ q2.err = "" /\ rows' = rows]_vars

\* the second of two deletes of the same record has resolved false
C12_Witness ==
  /\ reply.op = "delete"
  /\ reply.ran = "delete"
  /\ ~reply.fault
  /\ reply.out = "false"
  /\ reply.id \in Range(issued)

\* the ids that were assigned to a record and have none now
Gone == Range(issued) \ Ids(rows)

\* C13: an id that had a record and has none stays without one: no step gives
\* it a record again, a read of it finds nothing and a list does not hold it
C13_DeletedIdStaysNonexistent ==
  [][/\ \A id \in Gone : id \notin Ids(rows')
     /\ \A q2 \in After :
          (Acted(q2) /\ ~q2.fault) =>
            /\ (q2.ran = "get" /\ q2.id \in Gone) => q2.out = "null"
            /\ q2.ran = "all" =>
                 \A i \in DOMAIN q2.data : q2.data[i].id \notin Gone]_vars

\* C14: a list the storage medium did not fail holds exactly the records of
\* the table, each once, a record created later (the greater id) before every
\* record created earlier; it is the empty sequence when the table is empty
C14_ListNewestFirst ==
  [][\A q2 \in After :
       (Acted(q2) /\ q2.ran = "all" /\ ~q2.fault) =>
         /\ q2.out = "list"
         /\ Len(q2.data) = Cardinality(rows)
         /\ Range(q2.data) = rows
         /\ \A i, j \in DOMAIN q2.data : i < j => q2.data[i].id > q2.data[j].id]_vars

\* the error createDonation rejects with when the storage medium fails
StorageFaultOfCreate == AfterInsert(CreateDonation(NoFields), FALSE).err

\* C15: a direct createDonation whose donation_type is outside the enumeration,
\* whose quantity is <= 0 or whose donor_name is shorter than 2 persists
\* nothing and is rejected with an error other than that of a storage fault
C15_ConstraintViolationDistinct ==
  [][\A q2 \in After :
       (/\ Acted(q2)
        /\ q2.via = "store"
        /\ q2.op = "create"
        /\ q2.ran = "insert"
        /\ ~q2.fault
        /\ \/ q2.body.donation_type \notin DonationType
           \/ q2.body.quantity <= 0
           \/ Len(q2.body.donor_name) < MinNameLen) =>
         /\ rows' = rows
         /\ q2.out = "rejected"
         /\ q2.err # StorageFaultOfCreate]_vars

\* C16: a POST whose donor_name has a trimmed length below 2 is answered as a
\* validation failure (400 with field errors), whether the raw name is short
\* or padded with whitespace, and persists nothing
C16_ShortNameSameOutcome ==
  [][\A q2 \in After :
       (/\ Acted(q2)
        /\ q2.via = "route"
        /\ q2.op = "create"
        /\ "donor_name" \in q2.body.keys
        /\ Len(Trim(q2.body.donor_name)) < MinNameLen
        /\ ~q2.fault) =>
         /\ q2.status = 400
         /\ \E e \in q2.errors : e[1] = "donor_name"
         /\ rows' = rows]_vars

\* the request has been through its schema
Validated == reply.via = "route" /\ reply.op \in {"create", "update"} /\ reply.pc # "idle"

\* the schema passed the request on
Accepted == Validated /\ reply.pc # "done"

\* the fields the errors of the answer are addressed to
ErrorFields == {e[1] : e \in reply.errors}

\* C17: a donor_name is accepted by the create and the update schema exactly
\* when its trimmed length is between 2 and 100, and the normalized record
\* carries the trimmed name
C17_NameLengthAfterTrim ==
  (Validated /\ "donor_name" \in reply.body.keys) =>
    /\ "donor_name" \notin ErrorFields <=>
         /\ Len(Trim(reply.body.donor_name)) >= MinNameLen
         /\ Len(Trim(reply.body.donor_name)) <= MaxNameLen
    /\ Accepted => reply.parsed.donor_name = Trim(reply.body.donor_name)

\* C18: the create and the update schema accept a quantity exactly when
\* 0 < quantity <= 1,000,000
C18_QuantityBounds ==
  (Validated /\ "quantity" \in reply.body.keys) =>
    ("quantity" \notin ErrorFields <=>
       (reply.body.quantity > 0 /\ reply.body.quantity <= MaxQuantity))

\* a create whose quantity is exactly 1,000,000 has been accepted
C18_Witness ==
  /\ Accepted
  /\ reply.op = "create"
  /\ reply.body.quantity = MaxQuantity

\* the fields of a create input that are missing or violate their rule
ViolatedFields(m) ==
  {k \in CreateKeys :
     \/ k \notin m.keys
     \/ k = "donor_name" /\ ~(Len(Trim(m.donor_name)) \in MinNameLen .. MaxNameLen)
     \/ k = "donation_type" /\ m.donation_type \notin DonationType
     \/ k = "quantity" /\ ~(m.quantity > 0 /\ m.quantity <= MaxQuantity)
     \/ k = "date" /\ ~DateParses(m.date)}

\* C19: a POST whose input violates several field rules is answered 400 before
\* any statement runs, with errors addressed to exactly the violated fields,
\* and persists nothing
C19_AllViolatedFieldsReported ==
  [][\A q2 \in After :
       (/\ Acted(q2)
        /\ q2.via = "route"
        /\ q2.op = "create"
        /\ Cardinality(ViolatedFields(q2.body)) >= 2) =>
         /\ q2.status = 400
         /\ q2.ran = ""
         /\ {e[1] : e \in q2.errors} = ViolatedFields(q2.body)
         /\ rows' = rows]_vars

\* C20: the answer of a route is 500 only when the storage medium failed in
\* the statement the request ran last; 400 is given before any statement runs,
\* 404 when a statement found no record; an update payload without fields is
\* answered 400 when its record exists
C20_OutcomeClassesApart ==
  (reply.via = "route" /\ reply.pc = "done") =>
    /\ reply.status = 500 => reply.fault
    /\ reply.status = 400 => reply.ran = ""
    /\ reply.status = 404 => (reply.ran # "" /\ ~reply.fault)
    /\ (/\ reply.op = "update"
        /\ reply.ran # ""
        /\ Fields(reply.parsed) = {}
        /\ ~reply.fault
        /\ reply.out # "null") => reply.status = 400

\* C21: a PUT whose UPDATE has changed its record is not answered 404, and a
\* PUT whose UPDATE found no record is not answered as a success
C21_UpdateDeleteSerializable ==
  [][\A q2 \in After :
       (Acted(q2) /\ q2.via = "route" /\ q2.op = "update" /\ ~q2.fault) =>
         /\ q2.ran = "select" => q2.status # 404
         /\ (q2.ran = "update" /\ q2.id \notin Ids(rows)) =>
              (q2.pc = "done" /\ ~q2.success)]_vars

\* C22: a POST answered 201 carries a record, with the id its INSERT assigned
\* and the four fields as supplied (normalized)
C22_CreateReturnsStoredRecord ==
  (reply.via = "route" /\ reply.op = "create" /\ reply.status = 201) =>
    /\ reply.hasData
    /\ Len(reply.data) = 1
    /\ reply.data[1].id = reply.id
    /\ \A k \in CreateKeys : reply.data[1][k] = reply.parsed[k]

\* C23: a PUT answered 200 carries a record that has, for each field of the
\* payload, the supplied (normalized) value, and the updated_at its own UPDATE
\* wrote
C23_UpdateReturnsOwnWrite ==
  (reply.via = "route" /\ reply.op = "update" /\ reply.status = 200) =>
    /\ reply.hasData
    /\ Len(reply.data) = 1
    /\ \A k \in Fields(reply.parsed) : reply.data[1][k] = reply.parsed[k]
    /\ reply.data[1].updated_at = reply.wrote

\* C24: when the process has exited on a shutdown signal, no request is left
\* that ran its INSERT or UPDATE and had a storage step still to run
C24_ShutdownAfterWrites ==
  proc = "exited" =>
    \A q \in BagToSet(req) : q.ran \notin {"insert", "update"}

\* C25: a request that is answered with a storage fault has left the table as
\* it was when the request began: no statement of it had written before
C25_FaultLeavesStoreUnchanged ==
  (reply.pc = "done" /\ reply.fault) => reply.ran # "select"

\* C26: a route that has finished with a request has called sendResponse
\* exactly once for it
C26_ExactlyOneResponse ==
  (reply.via = "route" /\ reply.pc = "done") => reply.sends = 1

C29_OtherRecordsUntouched ==
  [][\A q2 \in After :
       Acted(q2) =>
         /\ q2.ran \in {"update", "delete"} =>
              \A old \in rows : old.id # q2.id => old \in rows'
         /\ q2.ran \in {"get", "all", "select", ""} => rows' = rows]_vars

\* a PUT has changed its record while another record was in the table
C29_Witness ==
  /\ reply.op = "update"
  /\ reply.status = 200
  /\ Cardinality(rows) = 2
  /\ \E r \in rows : r.id # reply.id /\ r.quantity = 12 /\ r.updated_at = r.created_at

\* C30: handleApiResponse returns the data of a response only when its envelope
\* has success = true, and for every response with success = false or a status
\* outside 2xx it throws an ApiError with the status and the errors of the
\* response and with its message, when it has one
C30_FailuresThrowApiError ==
  client # NoOutcome =>
    /\ client.kind = "returned" =>
         reply.success /\ AxiosResolves(reply.status) /\ client.data = reply.data
    /\ (~reply.success \/ ~AxiosResolves(reply.status)) =>
         /\ client.kind = "ApiError"
         /\ client.status = reply.status
         /\ client.errors = reply.errors
         /\ reply.message # "" => client.message = reply.message

\* a 2xx response whose envelope has success = false, with errors and data, has
\* been thrown as an ApiError
C30_Witness ==
  /\ client.kind = "ApiError"
  /\ reply.status = 200
  /\ ~reply.success
  /\ reply.hasData
  /\ reply.errors # {}
  /\ client.message = "Donation not found"

====
